---- MODULE Spec2Model ----
(***************************************************************************)
(* Model of the orchestration core of main.go: Memory, Role.Act and        *)
(* Team.RunProject.  One coordinator (the goroutine running RunProject),   *)
(* one goroutine per role (lines 216-224) and the closer goroutine (lines  *)
(* 227-230) interleave at the granularity of their operations on shared    *)
(* state: Memory.Add / Memory.GetRecent (each atomic under Memory.mu), the *)
(* results channel, the WaitGroup and standard output.                     *)
(*                                                                         *)
(* Text (Go strings) is a sequence of tokens; "" is <<>>.  A capability    *)
(* (Action.Run) is an external call: it returns an output that is a        *)
(* function of its name and input, returns an error, or never returns.     *)
(***************************************************************************)
EXTENDS Integers, Sequences, FiniteSets, TLC

\* Number of roles in Team.Roles.
NumRoles == 3

Roles == 1..NumRoles

\* Number of goroutines calling one Memory concurrently, and the number of
\* calls (Add or GetRecent) each of them makes.
NumCallers == 2
MaxCalls == 2

Callers == 1..NumCallers

\* Team.ProjectIdea (main.go:292), as text.
ProjectIdea == <<"write a function that calculates the product of a list">>

\* Profiles of the roles, by position in Team.Roles (main.go:291 puts the
\* tester first); positions past the third are further peers, which in the
\* team of main watch nothing and produce a label nobody watches.
Profiles == <<"SimpleTester", "SimpleCoder", "SimpleReviewer", "Extra4", "Extra5">>

\* The team built by main: tester, coder, reviewer, one capability each.
MainActions == <<"SimpleWriteTest", "SimpleWriteCode", "SimpleWriteReview", "SimpleWriteReview", "SimpleWriteReview">>
MainWatch == <<"SimpleWriteCode", "UserRequirement", "SimpleWriteTest">>

MainTeam ==
  [i \in Roles |-> [Profile   |-> Profiles[i],
                    Actions   |-> <<MainActions[i]>>,
                    WatchList |-> IF i <= Len(MainWatch) THEN <<MainWatch[i]>> ELSE <<>>]]

\* A team that exercises the other shapes a Role value can take: an empty
\* capability sequence, two capabilities, a watch list naming one label
\* twice, a role watching its own cause label, two roles producing the same
\* cause label, an empty watch list.
VariantTeam ==
  [i \in Roles |->
     IF i = 1 THEN [Profile   |-> Profiles[1],
                    Actions   |-> <<>>,
                    WatchList |-> <<"SimpleWriteCode", "SimpleWriteCode">>]
     ELSE IF i = 2 THEN [Profile   |-> Profiles[2],
                         Actions   |-> <<"SimpleWriteCode", "SimpleWriteTest">>,
                         WatchList |-> <<"SimpleWriteCode">>]
     ELSE [Profile   |-> Profiles[i],
           Actions   |-> <<"SimpleWriteCode">>,
           WatchList |-> <<>>]]

Teams == {MainTeam, VariantTeam}

\* What a capability invocation does: return output, return an error, or
\* never return.  A role without Actions has no capability; its entry is "ok".
Behaviours == {"ok", "fail", "hang"}

VARIABLES
  team,        \* Team.Roles: Profile, Actions (names), WatchList of each role
  capability,  \* behaviour of the external call made by each role's capability
  mem,         \* Memory.history of each role
  cpc,         \* position of the coordinator in RunProject
  ci,          \* index of the seeding / dispatch loop
  cur,         \* msg of the range loop (line 232)
  pending,     \* roles the nested loop of lines 235-241 still has to Add cur to
  pc,          \* position of each role goroutine
  contextData, \* contextData of each Act (line 170)
  actMsg,      \* msg returned by each Act
  actErr,      \* err returned by each Act (<<>> is nil)
  invoked,     \* names of the capabilities each Act has called Run on
  results,     \* contents of the results channel
  closed,      \* results has been closed
  wg,          \* WaitGroup counter
  closer,      \* position of the closer goroutine
  stdout,      \* lines printed so far
  delivered    \* history of the Adds of line 238: <<role index, message>>

\* One Memory under concurrent callers, at the granularity of the statements
\* of Add and GetRecent: Lock, the read and the write of m.history, Unlock.
VARIABLES
  mu,          \* Memory.mu: 0 when free, else the caller holding it
  hist,        \* Memory.history
  tpc,         \* position of each caller inside Add / GetRecent
  calls,       \* number of calls each caller has completed
  tmp,         \* the m.history each Add read as the operand of append
  ret,         \* what each caller's latest GetRecent returned
  order        \* history of the Add calls: their messages in the order they took mu

memVars == <<mu, hist, tpc, calls, tmp, ret, order>>

mainVars == <<team, capability, mem, cpc, ci, cur, pending, pc, contextData,
              actMsg, actErr, invoked, results, closed, wg, closer, stdout, delivered>>

vars == <<mainVars, memVars>>

\* Message{} (lines 178, 191).
ZeroMessage == [Content |-> <<>>, Role |-> "", CauseBy |-> ""]

\* Mutant: Role and CauseBy of the seed swapped.
userReq_mut == [Content |-> ProjectIdea, Role |-> "UserRequirement", CauseBy |-> "User"]

\* userReq (lines 201-205).
userReq == [Content |-> ProjectIdea, Role |-> "User", CauseBy |-> "UserRequirement"]

\* Mutant: the new message is put in front of the log.
Add_mut(history, msg) == <<msg>> \o history

\* Memory.Add (lines 25-30).
Add(history, msg) == Append(history, msg)

\* Mutant: the slice expression keeps the whole log.
GetRecent_mut(history) ==
  IF Len(history) = 0 THEN <<>> ELSE SubSeq(history, 1, Len(history))

\* Memory.GetRecent (lines 32-39).
GetRecent(history) ==
  IF Len(history) = 0 THEN <<>> ELSE SubSeq(history, Len(history), Len(history))

\* fmt.Sprintf("[%s]: %s\n", msg.Role, msg.Content) (line 172).
FormatMsg(msg) == <<"[", msg.Role, "]: ">> \o msg.Content \o <<"\n">>

\* The loop of lines 170-173 over the messages GetRecent returned.
RECURSIVE BuildContext(_)
BuildContext(msgs) ==
  IF msgs = <<>> THEN <<>> ELSE FormatMsg(Head(msgs)) \o BuildContext(Tail(msgs))

\* Output of a successful Action.Run: determined by the capability and its input.
RunOutput(name, input) == <<name, "(">> \o input \o <<")">>

\* Error of a failing Action.Run (lines 71, 75).
RunError == <<"no response from Azure OpenAI">>

\* fmt.Errorf("%s action failed: %w", action.Name(), err) (line 178).
WrapError(name, err) == <<name, " action failed: ">> \o err

\* Mutant: Act returns a nil error when there is no Action.
NoActionError_mut == <<>>

\* errors.New("no suitable action found") (line 191).
NoActionError == <<"no suitable action found">>

\* Mutant: Role and CauseBy filled from each other's source.
ResultMsg_mut(r, name, output) ==
  [Content |-> output, Role |-> name, CauseBy |-> team[r].Profile]

\* The message Act builds on success (lines 181-185).
ResultMsg(r, name, output) ==
  [Content |-> output, Role |-> team[r].Profile, CauseBy |-> name]

\* fmt.Printf("%s error: %v\n", r.Profile, err) (line 220).
ErrorLine(profile, err) == <<profile, " error: ">> \o err \o <<"\n">>

\* fmt.Printf("=== [%s] OUTPUT ===\n%s\n\n", msg.Role, msg.Content) (line 233).
OutputLine(msg) == <<"=== [", msg.Role, "] OUTPUT ===\n">> \o msg.Content \o <<"\n\n">>

\* Mutant: the comparison reads the wrong field of the message.
Matches_mut(watchType, msg) == watchType = msg.Role

\* watchType == msg.CauseBy (line 237).
Matches(watchType, msg) == watchType = msg.CauseBy

\* Mutant: the outer loop skips the first role.
RECURSIVE HitsOf_mut(_, _, _)
HitsOf_mut(i, j, msg) ==
  IF i > NumRoles THEN <<>>
  ELSE IF j > Len(team[i].WatchList) THEN HitsOf_mut(i + 1, 1, msg)
  ELSE (IF i > 1 /\ Matches(team[i].WatchList[j], msg) THEN <<i>> ELSE <<>>)
       \o HitsOf_mut(i, j + 1, msg)

\* The Adds the nested loop of lines 235-241 performs for msg, in order: role
\* i once for every entry of its WatchList that matches.
RECURSIVE HitsOf(_, _, _)
HitsOf(i, j, msg) ==
  IF i > NumRoles THEN <<>>
  ELSE IF j > Len(team[i].WatchList) THEN HitsOf(i + 1, 1, msg)
  ELSE (IF Matches(team[i].WatchList[j], msg) THEN <<i>> ELSE <<>>)
       \o HitsOf(i, j + 1, msg)

\* Mutant: the buffer is one slot short.
ResultsCap_mut == NumRoles - 1

\* cap(results) (line 212).
ResultsCap == NumRoles

\* Mutant: the closer does not wait for the role goroutines.
WaitReturns_mut == TRUE

\* wg.Wait() returns (line 228).
WaitReturns == wg = 0

Init ==
  /\ team \in Teams
  /\ capability \in [Roles -> Behaviours]
  /\ \A r \in Roles : team[r].Actions = <<>> => capability[r] = "ok"
  /\ mem = [r \in Roles |-> <<>>]
  /\ cpc = "seed"
  /\ ci = 1
  /\ cur = ZeroMessage
  /\ pending = <<>>
  /\ pc = [r \in Roles |-> "idle"]
  /\ contextData = [r \in Roles |-> <<>>]
  /\ actMsg = [r \in Roles |-> ZeroMessage]
  /\ actErr = [r \in Roles |-> <<>>]
  /\ invoked = [r \in Roles |-> <<>>]
  /\ results = <<>>
  /\ closed = FALSE
  /\ wg = 0
  /\ closer = "idle"
  /\ stdout = <<>>
  /\ delivered = <<>>
  /\ mu = 0
  /\ hist = <<>>
  /\ tpc = [t \in Callers |-> "idle"]
  /\ calls = [t \in Callers |-> 0]
  /\ tmp = [t \in Callers |-> <<>>]
  /\ ret = [t \in Callers |-> <<>>]
  /\ order = <<>>

\* ---- coordinator: RunProject ----

\* One iteration of the seeding loop (lines 207-209); after the last one the
\* WaitGroup and the channel are created (lines 211-212).
Seed ==
  /\ cpc = "seed"
  /\ mem' = [mem EXCEPT ![ci] = Add(mem[ci], userReq)]
  /\ IF ci = NumRoles
       THEN cpc' = "dispatch" /\ ci' = 1
       ELSE cpc' = cpc /\ ci' = ci + 1
  /\ UNCHANGED <<memVars, team, capability, cur, pending, pc, contextData, actMsg, actErr,
                 invoked, results, closed, wg, closer, stdout, delivered>>

\* One iteration of the dispatch loop (lines 214-225): wg.Add(1); go func.
Dispatch ==
  /\ cpc = "dispatch"
  /\ wg' = wg + 1
  /\ pc' = [pc EXCEPT ![ci] = "act"]
  /\ IF ci = NumRoles
       THEN cpc' = "spawn" /\ ci' = 1
       ELSE cpc' = cpc /\ ci' = ci + 1
  /\ UNCHANGED <<memVars, team, capability, mem, cur, pending, contextData, actMsg, actErr,
                 invoked, results, closed, closer, stdout, delivered>>

\* go func() { wg.Wait(); close(results) }() (lines 227-230).
SpawnCloser ==
  /\ cpc = "spawn"
  /\ closer' = "wait"
  /\ cpc' = "range"
  /\ UNCHANGED <<memVars, team, capability, mem, ci, cur, pending, pc, contextData, actMsg,
                 actErr, invoked, results, closed, wg, stdout, delivered>>

\* The range loop receives a message and prints it (lines 232-233); the
\* nested loop then has HitsOf(...) Adds to perform.
Receive ==
  /\ cpc = "range"
  /\ results # <<>>
  /\ LET msg == Head(results)
         hits == HitsOf(1, 1, msg) IN
       /\ cur' = msg
       /\ results' = Tail(results)
       /\ stdout' = Append(stdout, OutputLine(msg))
       /\ pending' = hits
       /\ cpc' = IF hits = <<>> THEN "range" ELSE "deliver"
  /\ UNCHANGED <<memVars, team, capability, mem, ci, pc, contextData, actMsg, actErr,
                 invoked, closed, wg, closer, delivered>>

\* The next role.Memory.Add(msg) of the nested loop (line 238).
Deliver ==
  /\ cpc = "deliver"
  /\ LET i == Head(pending) IN
       /\ mem' = [mem EXCEPT ![i] = Add(mem[i], cur)]
       /\ delivered' = Append(delivered, <<i, cur>>)
  /\ pending' = Tail(pending)
  /\ cpc' = IF Tail(pending) = <<>> THEN "range" ELSE "deliver"
  /\ UNCHANGED <<memVars, team, capability, ci, cur, pc, contextData, actMsg, actErr,
                 invoked, results, closed, wg, closer, stdout>>

\* Mutant: the loop ends as soon as the channel is empty, closed or not.
Return_mut ==
  /\ cpc = "range"
  /\ results = <<>>
  /\ cpc' = "returned"
  /\ UNCHANGED <<memVars, team, capability, mem, ci, cur, pending, pc, contextData, actMsg,
                 actErr, invoked, results, closed, wg, closer, stdout, delivered>>

\* The range loop ends when the channel is closed and drained; RunProject
\* returns (lines 232, 243).
Return ==
  /\ cpc = "range"
  /\ results = <<>>
  /\ closed
  /\ cpc' = "returned"
  /\ UNCHANGED <<memVars, team, capability, mem, ci, cur, pending, pc, contextData, actMsg,
                 actErr, invoked, results, closed, wg, closer, stdout, delivered>>

\* ---- closer goroutine ----

\* wg.Wait() returns and the channel is closed (lines 228-229).
CloseResults ==
  /\ closer = "wait"
  /\ WaitReturns
  /\ closed' = TRUE
  /\ closer' = "done"
  /\ UNCHANGED <<memVars, team, capability, mem, cpc, ci, cur, pending, pc, contextData,
                 actMsg, actErr, invoked, results, wg, stdout, delivered>>

\* ---- role goroutine: Act and the func of lines 216-224 ----

\* Act reads its Memory and builds contextData (lines 170-173); with no
\* Actions the loop of line 175 is skipped and Act returns the error of
\* line 191, otherwise Run is called on the first Action (line 176).
ActGetRecent(r) ==
  /\ pc[r] = "act"
  /\ contextData' = [contextData EXCEPT ![r] = BuildContext(GetRecent(mem[r]))]
  /\ IF team[r].Actions = <<>>
       THEN /\ actErr' = [actErr EXCEPT ![r] = NoActionError]
            /\ pc' = [pc EXCEPT ![r] = "report"]
            /\ UNCHANGED invoked
       ELSE /\ invoked' = [invoked EXCEPT ![r] = Append(@, Head(team[r].Actions))]
            /\ pc' = [pc EXCEPT ![r] = "running"]
            /\ UNCHANGED actErr
  /\ UNCHANGED <<memVars, team, capability, mem, cpc, ci, cur, pending, actMsg, results,
                 closed, wg, closer, stdout, delivered>>

\* action.Run returns output; Act builds msg (lines 176, 181-185).
RunOk(r) ==
  /\ pc[r] = "running"
  /\ capability[r] = "ok"
  /\ LET name == Head(team[r].Actions) IN
       actMsg' = [actMsg EXCEPT ![r] = ResultMsg(r, name, RunOutput(name, contextData[r]))]
  /\ pc' = [pc EXCEPT ![r] = "add"]
  /\ UNCHANGED <<memVars, team, capability, mem, cpc, ci, cur, pending, contextData, actErr,
                 invoked, results, closed, wg, closer, stdout, delivered>>

\* Mutant: on an error Act goes on to the next Action, when there is one.
RunFail_retry(r) ==
  /\ pc[r] = "running"
  /\ capability[r] = "fail"
  /\ IF Len(invoked[r]) < Len(team[r].Actions)
       THEN /\ invoked' = [invoked EXCEPT ![r] = Append(@, team[r].Actions[Len(@) + 1])]
            /\ UNCHANGED <<actErr, pc>>
       ELSE /\ actErr' = [actErr EXCEPT ![r] = WrapError(Head(team[r].Actions), RunError)]
            /\ pc' = [pc EXCEPT ![r] = "report"]
            /\ UNCHANGED invoked
  /\ UNCHANGED <<memVars, team, capability, mem, cpc, ci, cur, pending, contextData, actMsg,
                 results, closed, wg, closer, stdout, delivered>>

\* Mutant: the error branch does not return; Act goes on to Add and return.
RunFail_mut(r) ==
  /\ pc[r] = "running"
  /\ capability[r] = "fail"
  /\ actErr' = [actErr EXCEPT ![r] = WrapError(Head(team[r].Actions), RunError)]
  /\ pc' = [pc EXCEPT ![r] = "add"]
  /\ UNCHANGED <<memVars, team, capability, mem, cpc, ci, cur, pending, contextData, actMsg,
                 invoked, results, closed, wg, closer, stdout, delivered>>

\* action.Run returns an error; Act returns it wrapped (lines 177-179).
RunFail(r) ==
  /\ pc[r] = "running"
  /\ capability[r] = "fail"
  /\ actErr' = [actErr EXCEPT ![r] = WrapError(Head(team[r].Actions), RunError)]
  /\ pc' = [pc EXCEPT ![r] = "report"]
  /\ UNCHANGED <<memVars, team, capability, mem, cpc, ci, cur, pending, contextData, actMsg,
                 invoked, results, closed, wg, closer, stdout, delivered>>

\* Mutant: Act adds its message to the Memory of every role.
ActAdd_bcast(r) ==
  /\ pc[r] = "add"
  /\ mem' = [q \in Roles |-> Add(mem[q], actMsg[r])]
  /\ pc' = [pc EXCEPT ![r] = "send"]
  /\ UNCHANGED <<memVars, team, capability, cpc, ci, cur, pending, contextData, actMsg, actErr,
                 invoked, results, closed, wg, closer, stdout, delivered>>

\* Mutant: Act returns msg without adding it to its Memory.
ActAdd_mut(r) ==
  /\ pc[r] = "add"
  /\ mem' = mem
  /\ pc' = [pc EXCEPT ![r] = "send"]
  /\ UNCHANGED <<memVars, team, capability, cpc, ci, cur, pending, contextData, actMsg, actErr,
                 invoked, results, closed, wg, closer, stdout, delivered>>

\* r.Memory.Add(msg); return msg, nil (lines 187-188).
ActAdd(r) ==
  /\ pc[r] = "add"
  /\ mem' = [mem EXCEPT ![r] = Add(mem[r], actMsg[r])]
  /\ pc' = [pc EXCEPT ![r] = "send"]
  /\ UNCHANGED <<memVars, team, capability, cpc, ci, cur, pending, contextData, actMsg, actErr,
                 invoked, results, closed, wg, closer, stdout, delivered>>

\* results <- msg (line 223): blocks while the buffer is full.
Send(r) ==
  /\ pc[r] = "send"
  /\ ~closed
  /\ Len(results) < ResultsCap
  /\ results' = Append(results, actMsg[r])
  /\ pc' = [pc EXCEPT ![r] = "exit"]
  /\ UNCHANGED <<memVars, team, capability, mem, cpc, ci, cur, pending, contextData, actMsg,
                 actErr, invoked, closed, wg, closer, stdout, delivered>>

\* Mutant: wg.Done is not deferred, so the early return skips it.
Report_mut(r) ==
  /\ pc[r] = "report"
  /\ stdout' = Append(stdout, ErrorLine(team[r].Profile, actErr[r]))
  /\ pc' = [pc EXCEPT ![r] = "done"]
  /\ UNCHANGED <<memVars, team, capability, mem, cpc, ci, cur, pending, contextData, actMsg,
                 actErr, invoked, results, closed, wg, closer, delivered>>

\* err != nil: print it and return (lines 219-222).
Report(r) ==
  /\ pc[r] = "report"
  /\ stdout' = Append(stdout, ErrorLine(team[r].Profile, actErr[r]))
  /\ pc' = [pc EXCEPT ![r] = "exit"]
  /\ UNCHANGED <<memVars, team, capability, mem, cpc, ci, cur, pending, contextData, actMsg,
                 actErr, invoked, results, closed, wg, closer, delivered>>

\* Mutant: the goroutine ends without wg.Done.
Done_mut(r) ==
  /\ pc[r] = "exit"
  /\ wg' = wg
  /\ pc' = [pc EXCEPT ![r] = "done"]
  /\ UNCHANGED <<memVars, team, capability, mem, cpc, ci, cur, pending, contextData, actMsg,
                 actErr, invoked, results, closed, closer, stdout, delivered>>

\* defer wg.Done() (line 217).
Done(r) ==
  /\ pc[r] = "exit"
  /\ wg' = wg - 1
  /\ pc' = [pc EXCEPT ![r] = "done"]
  /\ UNCHANGED <<memVars, team, capability, mem, cpc, ci, cur, pending, contextData, actMsg,
                 actErr, invoked, results, closed, closer, stdout, delivered>>

RoleStep(r) ==
  \/ ActGetRecent(r)
  \/ RunOk(r)
  \/ RunFail(r)
  \/ ActAdd(r)
  \/ Send(r)
  \/ Report(r)
  \/ Done(r)

Coordinator == Seed \/ Dispatch \/ SpawnCloser \/ Receive \/ Deliver \/ Return

Next ==
  \/ Seed
  \/ Dispatch
  \/ SpawnCloser
  \/ Receive
  \/ Deliver
  \/ Return
  \/ CloseResults
  \/ \E r \in Roles : ActGetRecent(r)
  \/ \E r \in Roles : RunOk(r)
  \/ \E r \in Roles : RunFail(r)
  \/ \E r \in Roles : ActAdd(r)
  \/ \E r \in Roles : Send(r)
  \/ \E r \in Roles : Report(r)
  \/ \E r \in Roles : Done(r)

Spec == Init /\ [][Next]_vars

\* The Go scheduler runs every runnable goroutine eventually: each goroutine
\* is weakly fair.  A capability call that hangs has no enabled step.
FairSpec ==
  /\ Init
  /\ [][Next]_vars
  /\ WF_vars(Coordinator)
  /\ WF_vars(CloseResults)
  /\ \A r \in Roles : WF_vars(RoleStep(r))

\* ---- one Memory under concurrent Add and GetRecent ----

\* Labels of the successive calls of a caller.
CallLabels == <<"first", "second", "third", "fourth">>

\* The message a caller passes to its n-th call when that call is an Add.
CallMsg(t, n) == [Content |-> <<CallLabels[n]>>, Role |-> Profiles[t], CauseBy |-> "UserRequirement"]

\* Mutant: the mutex excludes nobody.
LockFree_mut == TRUE

\* m.mu.Lock() can return (lines 26, 33).
LockFree == mu = 0

\* Add: m.mu.Lock() (line 26).
AddLock(t) ==
  /\ tpc[t] = "idle"
  /\ calls[t] < MaxCalls
  /\ LockFree
  /\ mu' = t
  /\ tpc' = [tpc EXCEPT ![t] = "a1"]
  /\ order' = Append(order, CallMsg(t, calls[t] + 1))
  /\ UNCHANGED <<mainVars, hist, calls, tmp, ret>>

\* Add: the operand m.history of append is read (line 29).
AddRead(t) ==
  /\ tpc[t] = "a1"
  /\ tmp' = [tmp EXCEPT ![t] = hist]
  /\ tpc' = [tpc EXCEPT ![t] = "a2"]
  /\ UNCHANGED <<mainVars, mu, hist, calls, ret, order>>

\* Add: m.history is assigned the appended slice (line 29).
AddWrite(t) ==
  /\ tpc[t] = "a2"
  /\ hist' = Add(tmp[t], CallMsg(t, calls[t] + 1))
  /\ tpc' = [tpc EXCEPT ![t] = "a3"]
  /\ UNCHANGED <<mainVars, mu, calls, tmp, ret, order>>

\* GetRecent: m.mu.Lock() (line 33).
GetLock(t) ==
  /\ tpc[t] = "idle"
  /\ calls[t] < MaxCalls
  /\ LockFree
  /\ mu' = t
  /\ tpc' = [tpc EXCEPT ![t] = "g1"]
  /\ UNCHANGED <<mainVars, hist, calls, tmp, ret, order>>

\* GetRecent: the result is computed (lines 35-38).
GetRead(t) ==
  /\ tpc[t] = "g1"
  /\ ret' = [ret EXCEPT ![t] = GetRecent(hist)]
  /\ tpc' = [tpc EXCEPT ![t] = "g2"]
  /\ UNCHANGED <<mainVars, mu, hist, calls, tmp, order>>

\* defer m.mu.Unlock() (lines 27, 34); the call returns.
Unlock(t) ==
  /\ tpc[t] \in {"a3", "g2"}
  /\ mu' = 0
  /\ calls' = [calls EXCEPT ![t] = @ + 1]
  /\ tpc' = [tpc EXCEPT ![t] = "idle"]
  /\ UNCHANGED <<mainVars, hist, tmp, ret, order>>

MemInit ==
  /\ Init
  /\ team = MainTeam
  /\ \A r \in Roles : capability[r] = "ok"

MemNext ==
  \/ \E t \in Callers : AddLock(t)
  \/ \E t \in Callers : AddRead(t)
  \/ \E t \in Callers : AddWrite(t)
  \/ \E t \in Callers : GetLock(t)
  \/ \E t \in Callers : GetRead(t)
  \/ \E t \in Callers : Unlock(t)

MemSpec == MemInit /\ [][MemNext]_vars

TypeOK ==
  /\ cpc \in {"seed", "dispatch", "spawn", "range", "deliver", "returned"}
  /\ \A r \in Roles : pc[r] \in {"idle", "act", "running", "add", "send", "report", "exit", "done"}
  /\ wg \in 0..NumRoles
  /\ closer \in {"idle", "wait", "done"}

\* ---- vocabulary of the properties ----

\* Act of role r has returned (msg, nil).
Succeeded(r) == pc[r] \in {"send", "exit", "done"} /\ actErr[r] = <<>>

\* Act of role r has returned an error.
Failed(r) == pc[r] \in {"report", "exit", "done"} /\ actErr[r] # <<>>

\* The goroutine of role r has not finished.
Unfinished(r) == pc[r] # "done"

\* Role R watches the cause label of m.
Watches(R, m) == \E j \in 1..Len(team[R].WatchList) : team[R].WatchList[j] = m.CauseBy

\* Number of times the delivery loop has appended m to the Memory of role R.
DeliveryCount(R, m) == Cardinality({k \in 1..Len(delivered) : delivered[k] = <<R, m>>})

\* Number of entries the delivery loop has appended to the Memory of role R.
DeliveriesTo(R) == Cardinality({k \in 1..Len(delivered) : delivered[k][1] = R})

\* The OUTPUT lines printed so far (one per message drained).
OutputLines == {k \in 1..Len(stdout) : stdout[k][1] = "=== ["}

\* Every capability invocation returns.
AllReturn == \A r \in Roles : team[r].Actions # <<>> => capability[r] # "hang"

\* C1: the delivery loop appends no result to any Memory while some role
\* goroutine has not finished (the original claim; the code streams results
\* to the delivery loop as they arrive).
C1_FanInBarrier == delivered # <<>> => \A r \in Roles : ~Unfinished(r)

\* C2: when RunProject has returned, a successful result M has been appended
\* by the delivery loop to the Memory of R iff R watches M.CauseBy; and at
\* no time has the loop appended a result to a role that does not watch it.
C2_WatchListRouting ==
  /\ \A k \in 1..Len(delivered) : Watches(delivered[k][1], delivered[k][2])
  /\ cpc = "returned" =>
       \A R \in Roles, p \in Roles :
         Succeeded(p) => (DeliveryCount(R, actMsg[p]) > 0 <=> Watches(R, actMsg[p]))

C2_Witness ==
  /\ cpc = "returned"
  /\ \E R \in Roles, p \in Roles : Succeeded(p) /\ DeliveryCount(R, actMsg[p]) > 0
  /\ \E R \in Roles, p \in Roles : Succeeded(p) /\ DeliveryCount(R, actMsg[p]) = 0

\* C3: the context every Act builds is the formatted seed message (the
\* original claim; a result delivered before Act's GetRecent replaces it).
C3_NoRaceOnContext ==
  \A r \in Roles :
    pc[r] \notin {"idle", "act"} =>
      contextData[r] = <<"[", "User", "]: ">> \o ProjectIdea \o <<"\n">>

\* C4: no Act is invoked during seeding, and when the first role task is
\* about to be started GetRecent of every role returns exactly the seed
\* message (Role "User", CauseBy "UserRequirement", Content ProjectIdea).
C4_SeedingPrecedesDispatch ==
  /\ cpc = "seed" => \A r \in Roles : pc[r] = "idle"
  /\ (cpc = "dispatch" /\ \A r \in Roles : pc[r] = "idle") =>
       \A r \in Roles :
         GetRecent(mem[r]) =
           <<[Content |-> ProjectIdea, Role |-> "User", CauseBy |-> "UserRequirement"]>>

C4_Witness ==
  /\ cpc = "dispatch"
  /\ ci = 1
  /\ \A r \in Roles : pc[r] = "idle" /\ Len(mem[r]) = 1

\* C5: when role a fails (capability error or no capability) and role b's
\* capability succeeds, eventually b's goroutine has finished, b's result has
\* been drained and appended to the Memory of every role watching its cause
\* label, and RunProject has returned (given that the other roles'
\* capability calls return; b's part needs no such proviso).
C5_IsolationOfFailures ==
  <>(\A a \in Roles, b \in Roles :
       (/\ a # b
        /\ team[a].Actions = <<>> \/ capability[a] = "fail"
        /\ team[b].Actions # <<>> /\ capability[b] = "ok")
       => /\ pc[b] = "done"
          /\ Succeeded(b)
          /\ \E k \in OutputLines : stdout[k] = OutputLine(actMsg[b])
          /\ \A R \in Roles : Watches(R, actMsg[b]) => DeliveryCount(R, actMsg[b]) > 0
          /\ AllReturn => cpc = "returned")

C5_Witness ==
  \E a \in Roles, b \in Roles :
    /\ a # b
    /\ Failed(a)
    /\ Succeeded(b)
    /\ cpc = "returned"
    /\ \E R \in Roles : DeliveryCount(R, actMsg[b]) > 0

\* C6: when RunProject returns, the messages drained (one OUTPUT line each)
\* are exactly the results of the roles whose Act succeeded, each once, none
\* from a failed role, and at most one per role.
C6_ResultAccounting ==
  cpc = "returned" =>
    /\ Cardinality(OutputLines) = Cardinality({r \in Roles : Succeeded(r)})
    /\ Cardinality(OutputLines) <= NumRoles
    /\ \A r \in Roles :
         Cardinality({k \in OutputLines : stdout[k][2] = team[r].Profile})
           = IF Succeeded(r) THEN 1 ELSE 0
    /\ \A r \in Roles :
         Succeeded(r) => \E k \in OutputLines : stdout[k] = OutputLine(actMsg[r])

C6_Witness ==
  /\ cpc = "returned"
  /\ \E r \in Roles : Succeeded(r)
  /\ \E r \in Roles : Failed(r)

\* Messages that have left some role goroutine: in the channel, being
\* delivered, or delivered.
InFlight ==
  {results[k] : k \in 1..Len(results)}
    \cup (IF cpc = "deliver" THEN {cur} ELSE {})
    \cup {delivered[k][2] : k \in 1..Len(delivered)}

\* C7: a role whose capability failed has an error and no message, its
\* Memory holds only the seed and what the delivery loop appended, and no
\* message of that role is in the channel, printed or delivered.
C7_FailureEmitsNothing ==
  \A r \in Roles :
    (invoked[r] # <<>> /\ Failed(r)) =>
      /\ actErr[r] = <<Head(team[r].Actions), " action failed: ">> \o RunError
      /\ actMsg[r] = [Content |-> <<>>, Role |-> "", CauseBy |-> ""]
      /\ Len(mem[r]) = 1 + DeliveriesTo(r)
      /\ \A m \in InFlight : m.Role # team[r].Profile /\ m.Role # ""
      /\ \A k \in OutputLines : stdout[k][2] # team[r].Profile /\ stdout[k][2] # ""

C7_Witness ==
  \E r \in Roles :
    /\ invoked[r] # <<>>
    /\ Failed(r)
    /\ pc[r] = "done"
    /\ cpc = "returned"
    /\ delivered # <<>>

\* C8: a role with no Actions fails its Act with "no suitable action found",
\* calls Run on nothing, and its Memory gains no entry from its Act.
C8_NoActionFails ==
  \A r \in Roles :
    (team[r].Actions = <<>> /\ pc[r] \notin {"idle", "act"}) =>
      /\ actErr[r] = <<"no suitable action found">>
      /\ pc[r] \in {"report", "exit", "done"}
      /\ invoked[r] = <<>>
      /\ Len(mem[r]) = 1 + DeliveriesTo(r)
      /\ \A k \in 1..Len(mem[r]) : mem[r][k].Role # team[r].Profile

C8_Witness ==
  \E r \in Roles :
    /\ team[r].Actions = <<>>
    /\ pc[r] = "done"
    /\ DeliveriesTo(r) > 0

\* C9: if every capability call returns, RunProject eventually returns, and
\* then every role goroutine and the closer have finished, the channel is
\* closed and empty and every successful result was drained and delivered.
C9_Termination ==
  AllReturn =>
    <>(/\ cpc = "returned"
       /\ \A r \in Roles : pc[r] = "done"
       /\ closer = "done"
       /\ closed
       /\ results = <<>>
       /\ pending = <<>>
       /\ \A r \in Roles :
            Succeeded(r) =>
              /\ \E k \in OutputLines : stdout[k] = OutputLine(actMsg[r])
              /\ \A R \in Roles : Watches(R, actMsg[r]) => DeliveryCount(R, actMsg[r]) > 0)

C9_Witness ==
  /\ AllReturn
  /\ cpc = "returned"
  /\ \A r \in Roles : pc[r] = "done"
  /\ closed
  /\ results = <<>>
  /\ delivered # <<>>

\* C10: RunProject has returned only if every role goroutine has finished;
\* while a capability call hangs RunProject has not returned.
C10_NoTimeout ==
  /\ cpc = "returned" => \A r \in Roles : pc[r] = "done"
  /\ \A r \in Roles : (pc[r] = "running" /\ capability[r] = "hang") => cpc # "returned"

\* One capability call hangs, every other role has finished and its result
\* was drained and delivered; the coordinator is blocked on the channel.
C10_Witness ==
  \E h \in Roles :
    /\ pc[h] = "running"
    /\ capability[h] = "hang"
    /\ \A r \in Roles \ {h} : pc[r] = "done" /\ Succeeded(r)
    /\ Cardinality(OutputLines) = NumRoles - 1
    /\ results = <<>>
    /\ cpc = "range"
    /\ delivered # <<>>
    /\ ~closed

\* C11: Add is linearizable.  The log is always the messages of the Add
\* calls in the order they took the lock (less the one whose append is in
\* progress), so no entry is lost, duplicated or torn; every GetRecent
\* returned nothing or one of those messages; and when all calls have
\* completed the log length is the number of Add calls and GetRecent returns
\* the message of the Add that took the lock last.
C11_AddLinearizable ==
  /\ hist = IF \E t \in Callers : tpc[t] \in {"a1", "a2"}
              THEN SubSeq(order, 1, Len(order) - 1)
              ELSE order
  /\ \A t \in Callers :
       ret[t] = <<>> \/ \E k \in 1..Len(order) : ret[t] = <<order[k]>>
  /\ (\A t \in Callers : calls[t] = MaxCalls) =>
       /\ Len(hist) = Len(order)
       /\ \A k \in 1..Len(order) :
            Cardinality({j \in 1..Len(hist) : hist[j] = order[k]}) = 1
       /\ GetRecent(hist) = IF order = <<>> THEN <<>> ELSE <<order[Len(order)]>>

C11_Witness ==
  /\ \A t \in Callers : calls[t] = MaxCalls
  /\ Len(order) = NumCallers * MaxCalls - 1
  /\ Len(hist) = Len(order)
  /\ \E t \in Callers : ret[t] # <<>>
  /\ hist[1].Role # hist[2].Role

\* C12: GetRecent returns the empty sequence on an empty log and otherwise
\* exactly the last appended message, and no step of a GetRecent call
\* changes the log.
C12_GetRecentContract ==
  /\ [](\A t \in Callers :
          tpc[t] = "g2" =>
            /\ Len(ret[t]) <= 1
            /\ ret[t] = IF Len(hist) = 0 THEN <<>> ELSE <<hist[Len(hist)]>>)
  /\ [][\A t \in Callers :
          (tpc'[t] # tpc[t] /\ (tpc[t] \in {"g1", "g2"} \/ tpc'[t] = "g1"))
            => hist' = hist]_vars

C12_Witness ==
  \E t \in Callers, u \in Callers :
    /\ tpc[t] = "g2"
    /\ Len(hist) >= 2
    /\ ret[t] = <<hist[Len(hist)]>>
    /\ ret[t] # <<hist[1]>>
    /\ ret[u] = <<>>
    /\ calls[u] > 0
    /\ order[1].Role # Profiles[u]

\* The team of main with every capability succeeding.
MainAllOk == team = MainTeam /\ \A r \in Roles : capability[r] = "ok"

\* C13: in the team of main (tester 1, coder 2, reviewer 3) with every
\* capability succeeding, the only deliveries ever made are the coder's
\* result to the tester and the tester's result to the reviewer, each once;
\* the reviewer's result goes to nobody; at return there are exactly 2.
C13_MainScenario ==
  MainAllOk =>
    /\ \A k \in 1..Len(delivered) :
         \/ /\ delivered[k][1] = 1
            /\ delivered[k][2].Role = "SimpleCoder"
            /\ delivered[k][2].CauseBy = "SimpleWriteCode"
         \/ /\ delivered[k][1] = 3
            /\ delivered[k][2].Role = "SimpleTester"
            /\ delivered[k][2].CauseBy = "SimpleWriteTest"
    /\ Len(delivered) <= 2
    /\ cpc = "returned" =>
         /\ Len(delivered) = 2
         /\ DeliveryCount(1, actMsg[2]) = 1
         /\ DeliveryCount(3, actMsg[1]) = 1
         /\ \A R \in Roles : DeliveryCount(R, actMsg[3]) = 0

C13_Witness ==
  /\ MainAllOk
  /\ cpc = "returned"
  /\ Len(delivered) = 2
  /\ Len(mem[1]) = 3
  /\ Len(mem[2]) = 2
  /\ Len(mem[3]) = 3

\* The team of main with the tester's capability failing and every other
\* capability succeeding.
MainTesterFails ==
  /\ team = MainTeam
  /\ capability[1] = "fail"
  /\ \A r \in Roles \ {1} : capability[r] = "ok"

\* C14: in the team of main with the tester failing and the others
\* succeeding, nothing is ever delivered into the reviewer's Memory, the
\* tester's Memory never holds an entry of its own, and eventually
\* RunProject has returned with the coder's and the reviewer's Act completed,
\* the reviewer's capability invoked, and the reviewer's Memory holding
\* exactly the seed and the reviewer's own output.
C14_TesterFails ==
  MainTesterFails =>
    /\ [](/\ \A k \in 1..Len(delivered) : delivered[k][1] # 3
          /\ \A k \in 1..Len(mem[1]) : mem[1][k].Role # "SimpleTester"
          /\ Len(mem[1]) <= 1 + DeliveriesTo(1))
    /\ <>(/\ cpc = "returned"
          /\ pc[2] = "done" /\ Succeeded(2)
          /\ pc[3] = "done" /\ Succeeded(3)
          /\ invoked[3] = <<"SimpleWriteReview">>
          /\ actMsg[3].Role = "SimpleReviewer"
          /\ actMsg[3].CauseBy = "SimpleWriteReview"
          /\ mem[3] = <<[Content |-> ProjectIdea, Role |-> "User", CauseBy |-> "UserRequirement"],
                        actMsg[3]>>
          /\ Failed(1)
          /\ invoked[1] = <<"SimpleWriteTest">>)

C14_Witness ==
  /\ MainTesterFails
  /\ cpc = "returned"
  /\ Len(mem[3]) = 2
  /\ mem[3][2].Role = "SimpleReviewer"
  /\ Len(mem[1]) = 2
  /\ mem[1][2].Role = "SimpleCoder"
  /\ Len(delivered) = 1

\* C15: each role's Act is invoked once (a goroutine is started only for a
\* role that has none, and at return every role has had one), and an Act
\* calls Run at most once, on the first of its Actions; once it has returned
\* with Actions present it has called exactly that one.
C15_SingleShot ==
  /\ [](\A r \in Roles :
          /\ Len(invoked[r]) <= 1
          /\ invoked[r] # <<>> => invoked[r] = <<team[r].Actions[1]>>
          /\ (pc[r] \in {"add", "send", "report", "exit", "done"} /\ team[r].Actions # <<>>)
               => invoked[r] = <<team[r].Actions[1]>>
          /\ cpc = "returned" => pc[r] = "done")
  /\ [][\A r \in Roles :
          /\ pc'[r] = "act" /\ pc[r] # "act" => pc[r] = "idle"
          /\ pc'[r] = "idle" => pc[r] = "idle"]_vars

C15_Witness ==
  \E r \in Roles, q \in Roles :
    /\ Len(team[r].Actions) = 2
    /\ Failed(r)
    /\ invoked[r] = <<"SimpleWriteCode">>
    /\ Succeeded(q)
    /\ cpc = "returned"

\* C16: once Act of r has succeeded, its message has the capability's output
\* as Content, r's Profile as Role and the capability's Name as CauseBy; Act
\* appended it to r's Memory exactly once (any other copy there was put by
\* the delivery loop); once sent it is in the channel or has been drained;
\* and every message in the channel, being delivered or delivered is the
\* message some successful Act returned.
C16_ActResult ==
  /\ \A r \in Roles :
       Succeeded(r) =>
         /\ actMsg[r] = [Content |-> RunOutput(team[r].Actions[1], contextData[r]),
                         Role    |-> team[r].Profile,
                         CauseBy |-> team[r].Actions[1]]
         /\ Cardinality({k \in 1..Len(mem[r]) : mem[r][k] = actMsg[r]})
              = 1 + DeliveryCount(r, actMsg[r])
         /\ pc[r] \in {"exit", "done"} =>
              \/ \E k \in 1..Len(results) : results[k] = actMsg[r]
              \/ \E k \in OutputLines : stdout[k] = OutputLine(actMsg[r])
  /\ \A m \in InFlight : \E r \in Roles : Succeeded(r) /\ m = actMsg[r]

C16_Witness ==
  \E r \in Roles :
    /\ Succeeded(r)
    /\ pc[r] = "done"
    /\ DeliveryCount(r, actMsg[r]) = 1
    /\ Cardinality({k \in 1..Len(mem[r]) : mem[r][k] = actMsg[r]}) = 2
    /\ cpc = "returned"

\* C17: every step of RunProject (seeding, Act, delivery) leaves the old log
\* of every role as a prefix of the new one: nothing is removed, reordered
\* or overwritten and no length decreases.
C17_AppendOnly ==
  [][\A r \in Roles :
       /\ Len(mem'[r]) >= Len(mem[r])
       /\ SubSeq(mem'[r], 1, Len(mem[r])) = mem[r]]_vars

\* A log that grew by seeding, by the role's own Act and by delivery, and
\* holds the same message twice.
C17_Witness ==
  \E r \in Roles :
    /\ Len(mem[r]) = 3
    /\ mem[r][1].Role = "User"
    /\ mem[r][2] = mem[r][3]
    /\ DeliveriesTo(r) = 1
    /\ Succeeded(r)

\* C18: the delivery loop appends a successful result to a role at most
\* once, and at return exactly once to every role watching its cause label
\* (the original claim; a label listed twice is delivered twice).
C18_DeliveredExactlyOnce ==
  \A R \in Roles, p \in Roles :
    Succeeded(p) =>
      /\ DeliveryCount(R, actMsg[p]) <= 1
      /\ (cpc = "returned" /\ Watches(R, actMsg[p])) => DeliveryCount(R, actMsg[p]) = 1

\* C19: a step of a role goroutine leaves every other role's Memory
\* unchanged and builds its context from its own Memory only; a Memory
\* changes either by its own role's Act appending that role's message, or by
\* a seeding or delivery step of the coordinator.
C19_OwnMemoryOnly ==
  [][/\ \A r \in Roles :
          (pc'[r] # pc[r] /\ pc[r] # "idle") =>
            \A q \in Roles \ {r} : mem'[q] = mem[q]
     /\ \A r \in Roles :
          contextData'[r] # contextData[r] =>
            /\ pc[r] = "act"
            /\ contextData'[r] = BuildContext(GetRecent(mem[r]))
     /\ \A q \in Roles :
          mem'[q] # mem[q] =>
            \/ /\ pc[q] = "add"
               /\ pc'[q] = "send"
               /\ mem'[q] = Append(mem[q], actMsg[q])
               /\ actMsg[q].Role = team[q].Profile
            \/ /\ pc' = pc
               /\ cpc \in {"seed", "deliver"}]_vars

C19_Witness ==
  \E r \in Roles, q \in Roles :
    /\ r # q
    /\ pc[r] = "done" /\ Succeeded(r)
    /\ pc[q] = "done" /\ Failed(q)
    /\ Len(mem[r]) = 2
    /\ mem[r][2] = actMsg[r]
    /\ Len(mem[q]) >= 2
    /\ mem[q][2] = actMsg[r]

\* C20: the channel never holds more than len(Roles) messages, each role has
\* sent at most one, a role goroutine that is past its capability call can
\* always take its next step (in particular its send is never blocked, even
\* with the buffer undrained), and the channel is closed only when every
\* role goroutine has finished.
C20_BufferNeverBlocks ==
  /\ Len(results) <= NumRoles
  /\ \A r \in Roles :
       Cardinality({k \in 1..Len(results) : results[k].Role = team[r].Profile})
         + Cardinality({k \in OutputLines : stdout[k][2] = team[r].Profile}) <= 1
  /\ \A r \in Roles : pc[r] = "send" => ENABLED Send(r)
  /\ \A r \in Roles : pc[r] \in {"add", "send", "report", "exit"} => ENABLED RoleStep(r)
  /\ closed => \A r \in Roles : pc[r] = "done"

\* The buffer is full and undrained, and the last sender can still finish.
C20_Witness ==
  /\ Len(results) = NumRoles
  /\ stdout = <<>>
  /\ ~closed
  /\ \E r \in Roles : pc[r] = "exit"
  /\ \A r \in Roles : pc[r] \in {"exit", "done"}
====
